---- MODULE Spec2Model ----
(***************************************************************************)
(* A model of proton's Raft node (src/node.go): the event loop Start, the  *)
(* message router send, the membership handlers JoinCluster, AddNode,      *)
(* RegisterNode, JoinRaft and LeaveRaft, and the connection monitor that   *)
(* RegisterNode starts.  The consensus engine (etcd raft.Node) and the log *)
(* store (raft.MemoryStorage) are collaborators: the engine is a source of *)
(* Ready batches, the store a record of what was written to it.            *)
(***************************************************************************)
EXTENDS Integers, Sequences, FiniteSets, TLC

\* ------------------------------------------------------------ bounds

\* The longest rd.Messages, rd.CommittedEntries and rd.Entries of a batch.
MaxMsgs == 2
MaxCommitted == 2
MaxEntries == 2
\* The longest history of applied key/value entries that is recorded.
MaxApplied == 3
\* The most connections one node opens to one address.
MaxConns == 3

\* ------------------------------------------------------------ identities

\* The local node's ID (node A); the event loop that is modelled is this node's.
Self == 1
NodeIDs == {1, 2, 3}
PeerIDs == NodeIDs \ {Self}

\* RegisterNode's attempt count (declared outside node.go).
MaxRetryTime == 3

SeqsUpTo(S, n) == UNION {[1..k -> S] : k \in 0..n}

\* ------------------------------------------------------------ state

VARIABLES
    pc,          \* where Start is: "select", or the statement of the Ready case it is at
    rd,          \* the batch in hand; Messages and CommittedEntries hold what is left to range over
    acted,       \* the statements of the Ready case that have acted on the batch in hand
    failed,      \* the store calls of the batch in hand that returned an error
    inflight,    \* batches taken from the engine and not yet advanced
    Store,       \* n.Store, the log store
    PStore,      \* n.PStore, the application state store
    appliedLog,  \* history: the key/value entries process has applied, in order
    voters,      \* the engine's voter set (changed by ApplyConfChange)
    pendingConf, \* the configuration change the engine has accepted and not yet committed
    Cluster,     \* Cluster[n]: node n's registry n.Cluster.Nodes, ID -> [Addr, Client]
    opened,      \* opened[n][p]: how many connections n has opened to p (handles <<n, p, 1..>>)
    closed,      \* the handles whose Conn.Close() was called
    monitors,    \* the running monitor goroutines, each <<n, p, handle number>>
    halted,      \* halted[n]: "" while n's process runs, else why it died
    join,        \* join[p]: the JoinCluster call made by joiner p
    done,        \* whether a receive from n.done can proceed (the termination signal)
    ev           \* the last operation and the calls it made

loopVars == <<pc, rd, acted, failed, inflight, Store, PStore, appliedLog>>
engineVars == <<voters, pendingConf>>
netVars == <<Cluster, opened, closed, monitors>>
vars == <<pc, rd, acted, failed, inflight, Store, PStore, appliedLog, voters,
          pendingConf, Cluster, opened, closed, monitors, halted, join, done, ev>>

\* ------------------------------------------------------------ data

EmptyHardState == [Commit |-> 0]
IsEmptyHardState(hs) == hs = EmptyHardState
EmptySnapshot == [Index |-> 0, Data |-> <<>>]
IsEmptySnap(snap) == snap.Index = 0

NoConf == [Type |-> "None", NodeID |-> 0]
ConfChange(type, id) == [Type |-> type, NodeID |-> id]

\* A log entry.  Data is nil or a byte string; the bytes are modelled as a tuple:
\* Marshal(k, v) for a Pair, <<>> for no bytes, any other length for bytes that are
\* no Pair.  The bytes of a configuration change stand decoded in Conf.
NilData == [nil |-> TRUE, bytes |-> <<>>]
Bytes(b) == [nil |-> FALSE, bytes |-> b]
Marshal(k, v) == <<k, v>>
Garbage == <<"?">>
Unmarshal(data) ==
    CASE data.bytes = <<>> -> [err |-> FALSE, Key |-> "", Value |-> ""]
      [] Len(data.bytes) = 2 -> [err |-> FALSE, Key |-> data.bytes[1], Value |-> data.bytes[2]]
      [] OTHER -> [err |-> TRUE, Key |-> "", Value |-> ""]
NormalEntry(data) == [Type |-> "EntryNormal", Data |-> data, Conf |-> NoConf]
ConfEntry(cc) == [Type |-> "EntryConfChange", Data |-> Bytes(<<"cc">>), Conf |-> cc]

EmptyReady ==
    [HardState |-> EmptyHardState, Entries |-> <<>>, Snapshot |-> EmptySnapshot,
     Messages |-> <<>>, CommittedEntries |-> <<>>]

NoReg == [node |-> 0, peer |-> 0, attempts |-> 0, dialled |-> 0, client |-> 0, ret |-> ""]
Event(op, node, peer, calls) ==
    [op |-> op, node |-> node, peer |-> peer, calls |-> calls, reg |-> NoReg]

Running(n) == halted[n] = ""

\* ------------------------------------------------------------ registry

NewCluster == <<>>
\* Cluster.AddNodes with one node: insert or overwrite the entry of id.
AddNodes(reg, id, node) ==
    [x \in (DOMAIN reg) \cup {id} |-> IF x = id THEN node ELSE reg[x]]
\* Cluster.RemoveNode: delete the entry of id, whatever it holds.
RemoveNode(reg, id) == [x \in (DOMAIN reg) \ {id} |-> reg[x]]
\* NewNode: the registry holds the node itself, with no client.
NewNodeCluster(id) == AddNodes(NewCluster, id, [Addr |-> id, Client |-> 0])

\* ------------------------------------------------------------ the engine's output

\* The snapshot a batch may carry: its Data is the application state at Index.
SnapStore == [k \in {"k2"} |-> "v2"]
Snapshots == {EmptySnapshot, [Index |-> 1, Data |-> SnapStore]}
HardStates == {EmptyHardState, [Commit |-> 1]}
NewEntries == {[i \in 1..k |-> i] : k \in 0..MaxEntries}
Message(to) == [To |-> to]

IsPair(e) == e.Type = "EntryNormal" /\ ~e.Data.nil
NumPairs(es) == Cardinality({i \in 1..Len(es) : IsPair(es[i])})
NumConf(es) == Cardinality({i \in 1..Len(es) : es[i].Type = "EntryConfChange"})

\* The batches the engine may hand over: a hard state, new entries and a snapshot
\* among hss, ess and sns, messages to the members of dests, committed entries among
\* kinds (a configuration change is committed once).
ReadyBatches(hss, ess, sns, dests, kinds) ==
    {[HardState |-> hs, Entries |-> es, Snapshot |-> sn, Messages |-> ms,
      CommittedEntries |-> ce] :
        hs \in hss, es \in ess, sn \in sns,
        ms \in SeqsUpTo({Message(d) : d \in dests}, MaxMsgs),
        ce \in {c \in SeqsUpTo(kinds, MaxCommitted) : NumConf(c) <= 1}}

\* The whole of a batch: everything to persist, messages to every voter, key/value
\* entries to apply.
LoopBatches ==
    ReadyBatches(HardStates, NewEntries, Snapshots, voters,
                 {NormalEntry(Bytes(Marshal("k1", "v1")))})

\* Batches of messages, and of the configuration change the engine has accepted.
RouterBatches ==
    ReadyBatches({EmptyHardState}, {<<>>}, {EmptySnapshot}, voters,
                 IF pendingConf = NoConf THEN {} ELSE {ConfEntry(pendingConf)})

\* Batches of committed normal entries: every key and value, no bytes, nil, and bytes
\* that are no Pair.
Keys == {"k1", "k2"}
Values == {"v1", "v2"}
ApplyKinds ==
    {NormalEntry(Bytes(Marshal(k, v))) : k \in Keys, v \in Values}
        \cup {NormalEntry(Bytes(<<>>)), NormalEntry(NilData), NormalEntry(Bytes(Garbage))}
ApplyBatches == ReadyBatches({EmptyHardState}, {<<>>}, {EmptySnapshot}, {}, ApplyKinds)

\* ------------------------------------------------------------ Start: the order of the Ready case

\* Start with the messages dispatched before the batch is saved.
StartOrderSendFirst == <<"send", "saveToStorage", "processSnapshot", "process", "Advance">>

StartOrder == <<"saveToStorage", "send", "processSnapshot", "process", "Advance">>

HasWork(stmt, r) ==
    CASE stmt = "send" -> r.Messages # <<>>
      [] stmt = "processSnapshot" -> ~IsEmptySnap(r.Snapshot)
      [] stmt = "process" -> r.CommittedEntries # <<>>
      [] OTHER -> TRUE

\* The first statement at or after position k that has something to do; after the
\* last one the loop is back at its select.
RECURSIVE StepFrom(_, _)
StepFrom(k, r) ==
    IF k > Len(StartOrder) THEN "select"
    ELSE IF HasWork(StartOrder[k], r) THEN StartOrder[k]
    ELSE StepFrom(k + 1, r)

Position(stmt) == CHOOSE k \in 1..Len(StartOrder) : StartOrder[k] = stmt
\* Where Start goes when stmt has acted once: on with stmt while it ranges over
\* something, else to what follows it.
Continue(stmt, r) == StepFrom(Position(stmt), r)
After(stmt, r) == StepFrom(Position(stmt) + 1, r)

\* ------------------------------------------------------------ saveToStorage

StoreCalls(r) ==
    {"Append"}
        \cup (IF IsEmptyHardState(r.HardState) THEN {} ELSE {"SetHardState"})
        \cup (IF IsEmptySnap(r.Snapshot) THEN {} ELSE {"ApplySnapshot"})

\* The store keeps what the last Append, SetHardState and ApplySnapshot that did not
\* fail wrote; a call in errs returns an error and writes nothing.  saveToStorage
\* drops every error.
saveToStorage(store, hardState, entries, snapshot, errs) ==
    LET s1 == IF "Append" \in errs \/ entries = <<>> THEN store
              ELSE [store EXCEPT !.ents = entries]
        s2 == IF IsEmptyHardState(hardState) \/ "SetHardState" \in errs THEN s1
              ELSE [s1 EXCEPT !.hardState = hardState]
    IN  IF IsEmptySnap(snapshot) \/ "ApplySnapshot" \in errs THEN s2
        ELSE [s2 EXCEPT !.snapshot = snapshot]

\* ------------------------------------------------------------ send

\* send without its test for the local node: every message is looked up.
sendNoLoopBack(reg, m, sendOk) ==
    IF m.To \in DOMAIN reg
    THEN IF sendOk /\ <<Self, m.To, reg[m.To].Client>> \notin closed
         THEN [calls |-> {"Lookup", "Send"}, evict |-> FALSE]
         ELSE [calls |-> {"Lookup", "Send", "Close", "ReportUnreachable", "RemoveNode"},
               evict |-> TRUE]
    ELSE [calls |-> {"Lookup"}, evict |-> FALSE]

\* Routing one message: the calls made, and whether the peer is evicted.  sendOk is
\* the outcome of the remote Send; a closed handle always fails.
send(reg, m, sendOk) ==
    IF m.To = Self THEN [calls |-> {"Step"}, evict |-> FALSE]
    ELSE IF m.To \in DOMAIN reg
         THEN IF sendOk /\ <<Self, m.To, reg[m.To].Client>> \notin closed
              THEN [calls |-> {"Lookup", "Send"}, evict |-> FALSE]
              ELSE [calls |-> {"Lookup", "Send", "Close", "ReportUnreachable", "RemoveNode"},
                    evict |-> TRUE]
         ELSE [calls |-> {"Lookup"}, evict |-> FALSE]

\* ------------------------------------------------------------ process

\* process keeping the value a key already has.
processKeepsFirst(store, entry) ==
    IF entry.Type = "EntryNormal" /\ ~entry.Data.nil
    THEN LET pair == Unmarshal(entry.Data)
         IN  IF pair.err THEN [fatal |-> TRUE, store |-> store, calls |-> {}]
             ELSE [fatal |-> FALSE,
                   store |-> [k \in (DOMAIN store) \cup {pair.Key} |->
                                 IF k \in DOMAIN store THEN store[k] ELSE pair.Value],
                   calls |-> {"event", "handler"}]
    ELSE [fatal |-> FALSE, store |-> store, calls |-> {}]

\* process passing over an entry that does not decode.
processSkipsUndecodable(store, entry) ==
    IF entry.Type = "EntryNormal" /\ ~entry.Data.nil
    THEN LET pair == Unmarshal(entry.Data)
         IN  IF pair.err THEN [fatal |-> FALSE, store |-> store, calls |-> {}]
             ELSE [fatal |-> FALSE,
                   store |-> [k \in (DOMAIN store) \cup {pair.Key} |->
                                 IF k = pair.Key THEN pair.Value ELSE store[k]],
                   calls |-> {"event", "handler"}]
    ELSE [fatal |-> FALSE, store |-> store, calls |-> {}]

\* One committed entry: a normal entry with data is decoded and written to the
\* store; anything else leaves the store alone.
process(store, entry) ==
    IF entry.Type = "EntryNormal" /\ ~entry.Data.nil
    THEN LET pair == Unmarshal(entry.Data)
         IN  IF pair.err THEN [fatal |-> TRUE, store |-> store, calls |-> {}]
             ELSE [fatal |-> FALSE,
                   store |-> [k \in (DOMAIN store) \cup {pair.Key} |->
                                 IF k = pair.Key THEN pair.Value ELSE store[k]],
                   calls |-> {"event", "handler"}]
    ELSE [fatal |-> FALSE, store |-> store, calls |-> {}]

ApplyConfChange(vs, cc) ==
    CASE cc.Type = "ConfChangeAddNode" -> vs \cup {cc.NodeID}
      [] cc.Type = "ConfChangeRemoveNode" -> vs \ {cc.NodeID}
      [] OTHER -> vs

\* ------------------------------------------------------------ Start: the actions of the event loop

\* case <-n.ticker: n.Tick()
Tick ==
    /\ Running(Self) /\ pc = "select"
    /\ ev' = Event("Tick", Self, 0, {"Tick"})
    /\ UNCHANGED <<done, loopVars, engineVars, netVars, halted, join>>

\* case rd := <-n.Ready(): a batch among B is in hand.
Ready(B) ==
    /\ Running(Self) /\ pc = "select"
    /\ \E b \in B :
        /\ Len(appliedLog) + NumPairs(b.CommittedEntries) <= MaxApplied
        /\ rd' = b
        /\ pc' = StepFrom(1, b)
        /\ pendingConf' = IF NumConf(b.CommittedEntries) > 0 THEN NoConf ELSE pendingConf
    /\ acted' = {} /\ failed' = {}
    /\ inflight' = inflight + 1
    /\ ev' = Event("Ready", Self, 0, {"Ready"})
    /\ UNCHANGED <<done, Store, PStore, appliedLog, voters, netVars, halted, join>>

\* n.saveToStorage(rd.HardState, rd.Entries, rd.Snapshot); any of its store calls may
\* return an error.
SaveToStorage ==
    /\ Running(Self) /\ pc = "saveToStorage"
    /\ \E errs \in SUBSET StoreCalls(rd) :
        /\ Store' = saveToStorage(Store, rd.HardState, rd.Entries, rd.Snapshot, errs)
        /\ failed' = errs
    /\ acted' = acted \cup {"saveToStorage"}
    /\ pc' = After("saveToStorage", rd)
    /\ ev' = Event("saveToStorage", Self, 0, StoreCalls(rd))
    /\ UNCHANGED <<done, rd, inflight, PStore, appliedLog, engineVars, netVars, halted, join>>

\* send giving up the process at the first Send that fails.
SendMessageFatal ==
    /\ Running(Self) /\ pc = "send"
    /\ LET m == Head(rd.Messages)
           rest == [rd EXCEPT !.Messages = Tail(rd.Messages)]
       IN  \E sendOk \in BOOLEAN :
             LET r == send(Cluster[Self], m, sendOk)
             IN  /\ ev' = Event("send", Self, m.To, r.calls)
                 /\ IF r.evict
                    THEN /\ closed' = closed \cup {<<Self, m.To, Cluster[Self][m.To].Client>>}
                         /\ Cluster' = [Cluster EXCEPT ![Self] = RemoveNode(@, m.To)]
                         /\ halted' = [halted EXCEPT ![Self] = "fatal: send failed"]
                    ELSE UNCHANGED <<closed, Cluster, halted>>
                 /\ rd' = rest
                 /\ pc' = Continue("send", rest)
    /\ acted' = acted \cup {"send"}
    /\ UNCHANGED <<done, failed, inflight, Store, PStore, appliedLog, engineVars, opened,
                   monitors, join>>

\* n.send(rd.Messages): one turn of its loop, for the first message left.
SendMessage ==
    /\ Running(Self) /\ pc = "send"
    /\ LET m == Head(rd.Messages)
           rest == [rd EXCEPT !.Messages = Tail(rd.Messages)]
       IN  \E sendOk \in BOOLEAN :
             LET r == send(Cluster[Self], m, sendOk)
             IN  /\ ev' = Event("send", Self, m.To, r.calls)
                 /\ IF r.evict
                    THEN /\ closed' = closed \cup {<<Self, m.To, Cluster[Self][m.To].Client>>}
                         /\ Cluster' = [Cluster EXCEPT ![Self] = RemoveNode(@, m.To)]
                    ELSE UNCHANGED <<closed, Cluster>>
                 /\ rd' = rest
                 /\ pc' = Continue("send", rest)
    /\ acted' = acted \cup {"send"}
    /\ UNCHANGED <<done, failed, inflight, Store, PStore, appliedLog, engineVars, opened,
                   monitors, halted, join>>

\* n.processSnapshot(rd.Snapshot): it panics, and the process dies.
ProcessSnapshot ==
    /\ Running(Self) /\ pc = "processSnapshot"
    /\ halted' = [halted EXCEPT ![Self] = "panic: applying snapshot is not implemented"]
    /\ acted' = acted \cup {"processSnapshot"}
    /\ ev' = Event("processSnapshot", Self, 0, {"panic"})
    /\ UNCHANGED <<done, pc, rd, failed, inflight, Store, PStore, appliedLog, engineVars,
                   netVars, join>>

\* One turn of the loop over rd.CommittedEntries: n.process(entry), then
\* n.ApplyConfChange(cc) for a configuration change.
ProcessEntry ==
    /\ Running(Self) /\ pc = "process"
    /\ LET entry == Head(rd.CommittedEntries)
           rest == [rd EXCEPT !.CommittedEntries = Tail(rd.CommittedEntries)]
           r == process(PStore, entry)
       IN  IF r.fatal
           THEN /\ halted' = [halted EXCEPT ![Self] = "fatal: can't decode key and value"]
                /\ ev' = Event("process", Self, 0, {"log.Fatal"})
                /\ UNCHANGED <<pc, rd, PStore, appliedLog, voters>>
           ELSE /\ PStore' = r.store
                /\ appliedLog' = IF IsPair(entry) THEN Append(appliedLog, entry.Data)
                                 ELSE appliedLog
                /\ voters' = IF entry.Type = "EntryConfChange"
                             THEN ApplyConfChange(voters, entry.Conf) ELSE voters
                /\ ev' = Event("process", Self, 0,
                               r.calls \cup (IF entry.Type = "EntryConfChange"
                                             THEN {"ApplyConfChange"} ELSE {}))
                /\ rd' = rest
                /\ pc' = Continue("process", rest)
                /\ UNCHANGED halted
    /\ acted' = acted \cup {"process"}
    /\ UNCHANGED <<done, failed, inflight, Store, pendingConf, netVars, join>>

\* n.Advance(): the batch is done and the loop is back at its select.
Advance ==
    /\ Running(Self) /\ pc = "Advance"
    /\ pc' = After("Advance", rd)
    /\ rd' = EmptyReady
    /\ acted' = {} /\ failed' = {}
    /\ inflight' = inflight - 1
    /\ ev' = Event("Advance", Self, 0, {"Advance"})
    /\ UNCHANGED <<done, Store, PStore, appliedLog, engineVars, netVars, halted, join>>

\* The termination signal is raised: from now on a receive from n.done can proceed.
\* (NewNode keeps the channel as receive-only; the raising is the environment's.)
Stop ==
    /\ ~done
    /\ done' = TRUE
    /\ UNCHANGED <<loopVars, engineVars, netVars, halted, join, ev>>

\* case <-n.done: return.  The select takes this case when the receive can proceed;
\* when the ticker or the engine is ready as well, it takes any of the ready cases.
Exit ==
    /\ Running(Self) /\ pc = "select" /\ done
    /\ pc' = "exited"
    /\ ev' = Event("Exit", Self, 0, {"return"})
    /\ UNCHANGED <<done, rd, acted, failed, inflight, Store, PStore, appliedLog,
                   engineVars, netVars, halted, join>>

\* n.Send(ctx, message), the handler of the inbound Send RPC, in the goroutine that
\* serves the call: n.Step(n.Ctx, *message), wherever Start is.
Send(from) ==
    /\ Running(Self)
    /\ ev' = Event("Send", Self, from, {"Step"})
    /\ UNCHANGED <<done, loopVars, engineVars, netVars, halted, join>>

\* ------------------------------------------------------------ JoinRaft, LeaveRaft

\* n.ProposeConfChange(n.Ctx, confChange): the engine refuses the change with an
\* error, or accepts it; it keeps an accepted change unless one is pending already.
\* The handler answers Success or ErrConfChangeRefused and touches nothing else.
Propose(op, type, id) ==
    /\ Running(Self)
    /\ \E refused \in BOOLEAN :
        IF refused \/ pendingConf # NoConf
        THEN UNCHANGED <<pendingConf, ev>>
        ELSE /\ pendingConf' = ConfChange(type, id)
             /\ ev' = Event(op, Self, id, {"ProposeConfChange", "Success"})
    /\ UNCHANGED <<done, loopVars, voters, netVars, halted, join>>

\* JoinRaft making the proposed member routable as well.
JoinRaftRegisters(id) ==
    /\ Running(Self) /\ pendingConf = NoConf
    /\ pendingConf' = ConfChange("ConfChangeAddNode", id)
    /\ Cluster' = [Cluster EXCEPT ![Self] = AddNodes(@, id, [Addr |-> id, Client |-> 0])]
    /\ ev' = Event("JoinRaft", Self, id, {"ProposeConfChange", "Success"})
    /\ UNCHANGED <<done, loopVars, voters, opened, closed, monitors, halted, join>>

JoinRaft(id) == Propose("JoinRaft", "ConfChangeAddNode", id)
LeaveRaft(id) == Propose("LeaveRaft", "ConfChangeRemoveNode", id)

\* ------------------------------------------------------------ the monitor goroutine

\* One tick of the monitor that n's RegisterNode started for p with handle h: Ping;
\* on an error close the handle, report p unreachable, remove p's entry and end.
\* A Ping that is answered changes nothing.
Monitor(n, p, h) ==
    /\ Running(n) /\ <<n, p, h>> \in monitors
    /\ \E pingOk \in BOOLEAN :
        IF pingOk /\ <<n, p, h>> \notin closed
        THEN UNCHANGED <<netVars, ev>>
        ELSE /\ ev' = Event("monitor", n, p,
                            {"Ping", "Close", "ReportUnreachable", "RemoveNode"})
             /\ closed' = closed \cup {<<n, p, h>>}
             /\ Cluster' = [Cluster EXCEPT ![n] = RemoveNode(@, p)]
             /\ monitors' = monitors \ {<<n, p, h>>}
             /\ UNCHANGED opened
    /\ UNCHANGED <<done, loopVars, engineVars, halted, join>>

\* ------------------------------------------------------------ RegisterNode

\* The retry loop returning at the first attempt that fails.
RECURSIVE RetryLoopGivesUp(_, _, _, _)
RetryLoopGivesUp(i, outcomes, base, st) ==
    IF i > MaxRetryTime THEN st
    ELSE LET ok == outcomes[i]
             st1 == [attempts |-> st.attempts + 1,
                     dialled |-> st.dialled + (IF ok THEN 1 ELSE 0),
                     client |-> IF ok THEN base + st.dialled + 1 ELSE 0,
                     ret |-> ""]
         IN  IF ~ok
             THEN [st1 EXCEPT !.ret = "ErrConnectionRefused"]
             ELSE RetryLoopGivesUp(i + 1, outcomes, base, st1)

\* The retry loop, from attempt i on.  outcomes[i] tells whether GetProtonClient
\* connects at attempt i; the handles a node opens to an address are numbered from
\* base + 1.  client and err are those of the attempt made last; the loop returns
\* ErrConnectionRefused when attempt MaxRetryTime fails, and else runs to its end.
RECURSIVE RetryLoop(_, _, _, _)
RetryLoop(i, outcomes, base, st) ==
    IF i > MaxRetryTime THEN st
    ELSE LET ok == outcomes[i]
             st1 == [attempts |-> st.attempts + 1,
                     dialled |-> st.dialled + (IF ok THEN 1 ELSE 0),
                     client |-> IF ok THEN base + st.dialled + 1 ELSE 0,
                     ret |-> ""]
         IN  IF ~ok /\ i = MaxRetryTime
             THEN [st1 EXCEPT !.ret = "ErrConnectionRefused"]
             ELSE RetryLoop(i + 1, outcomes, base, st1)

Net == [Cluster |-> Cluster, opened |-> opened, monitors |-> monitors]

\* n.RegisterNode(info) for the node at p: the retry loop; then, unless it returned,
\* the monitor goroutine is started and the peer inserted with the client in hand.
RegisterNode(net, n, p, outcomes) ==
    LET r == RetryLoop(1, outcomes, net.opened[n][p],
                       [attempts |-> 0, dialled |-> 0, client |-> 0, ret |-> ""])
        dials == [net EXCEPT !.opened[n][p] = @ + r.dialled]
    IN  [reg |-> [node |-> n, peer |-> p, attempts |-> r.attempts, dialled |-> r.dialled,
                  client |-> r.client, ret |-> r.ret],
         net |-> IF r.ret # "" THEN dials
                 ELSE [dials EXCEPT
                          !.monitors = @ \cup {<<n, p, r.client>>},
                          !.Cluster[n] = AddNodes(@, p, [Addr |-> p, Client |-> r.client])]]

\* What the attempts of one RegisterNode call of n for p may come to: nothing
\* connects to a dead process, and no more than MaxConns handles are opened.
Outcomes(n, p) ==
    {o \in [1..MaxRetryTime -> BOOLEAN] :
        /\ Running(p) \/ \A i \in 1..MaxRetryTime : ~o[i]
        /\ opened[n][p] + Cardinality({i \in 1..MaxRetryTime : o[i]}) <= MaxConns}

SetNet(net) ==
    /\ Cluster' = net.Cluster
    /\ opened' = net.opened
    /\ monitors' = net.monitors

RegEvent(op, r) ==
    [op |-> op, node |-> r.reg.node, peer |-> r.reg.peer,
     calls |-> IF r.reg.ret = "" THEN {"RegisterNode", "Success"}
               ELSE {"RegisterNode", r.reg.ret},
     reg |-> r.reg]

\* ------------------------------------------------------------ AddNode, JoinCluster

\* n.AddNode(ctx, info) served for the node at p: n.RegisterNode(info), and an answer
\* that tells whether it returned an error.
AddNode(n, p) ==
    /\ Running(n)
    /\ \E o \in Outcomes(n, p) :
         LET r == RegisterNode(Net, n, p, o)
         IN  /\ SetNet(r.net)
             /\ ev' = RegEvent("AddNode", r)
    /\ UNCHANGED <<done, closed, halted, join, loopVars, engineVars>>

\* The call JoinCluster is serving for joiner p ranges over a registry that held the
\* entries of start when the range began; it has visited the entries of visited and
\* collected them in nodes; forward tells how an AddNode it made failed.
NoJoin ==
    [state |-> "idle", target |-> 0, start |-> {}, visited |-> {}, nodes |-> {},
     forward |-> "",
     Success |-> FALSE, Info |-> {}, boot |-> {}, after |-> {}]

Succeeded(q) == join[q].state \in {"returned", "joined"} /\ join[q].Success

\* The new member p calls JoinCluster on t.
JoinClusterCall(p, t) ==
    /\ p # t /\ Running(p) /\ Running(t)
    /\ join[p].state = "idle"
    /\ join' = [join EXCEPT ![p] = [NoJoin EXCEPT !.state = "iterating", !.target = t,
                                       !.start = DOMAIN Cluster[t],
                                       !.after = {q \in NodeIDs : Succeeded(q)}]]
    /\ ev' = Event("JoinCluster", t, p, {})
    /\ UNCHANGED <<done, loopVars, engineVars, netVars, halted>>

\* JoinCluster's loop collecting the entries without telling them of the new member.
JoinClusterVisitNoForward(p, id) ==
    /\ join[p].state = "iterating" /\ Running(join[p].target)
    /\ id \in (DOMAIN Cluster[join[p].target]) \ join[p].visited
    /\ join' = [join EXCEPT ![p] = [@ EXCEPT !.visited = @ \cup {id}, !.nodes = @ \cup {id}]]
    /\ ev' = Event("JoinCluster", join[p].target, id, {"continue"})
    /\ UNCHANGED <<done, netVars, halted, loopVars, engineVars>>

\* One turn of JoinCluster's loop over n.Cluster.Nodes, at entry id: the entry is
\* collected; unless it is the node's own, AddNode is called on it for p.  The call
\* errs (always on a closed handle or a dead peer), and then resp is nil and
\* reading resp.Error panics; or the peer's AddNode runs its RegisterNode and
\* answers, and an answer without Success ends JoinCluster with Success false.
JoinClusterVisit(p, id) ==
    LET t == join[p].target
        j == [join[p] EXCEPT !.visited = @ \cup {id}, !.nodes = @ \cup {id}]
    IN  /\ join[p].state = "iterating" /\ Running(t)
        /\ id \in (DOMAIN Cluster[t]) \ join[p].visited
        /\ IF id = t
           THEN /\ join' = [join EXCEPT ![p] = j]
                /\ ev' = Event("JoinCluster", t, id, {"continue"})
                /\ UNCHANGED <<netVars, halted>>
           ELSE \E rpcOk \in BOOLEAN :
                  IF rpcOk /\ Running(id) /\ <<t, id, Cluster[t][id].Client>> \notin closed
                  THEN \E o \in Outcomes(id, p) :
                         LET r == RegisterNode(Net, id, p, o)
                         IN  /\ SetNet(r.net)
                             /\ ev' = RegEvent("AddNode", r)
                             /\ join' = [join EXCEPT ![p] =
                                           IF r.reg.ret = "" THEN j
                                           ELSE [j EXCEPT !.state = "returned",
                                                          !.forward = "refused",
                                                          !.Success = FALSE]]
                             /\ UNCHANGED halted
                  ELSE /\ join' = [join EXCEPT ![p] = [j EXCEPT !.state = "panicked",
                                                                !.forward = "error"]]
                       /\ halted' = [halted EXCEPT ![t] = "panic: nil pointer dereference"]
                       /\ ev' = Event("JoinCluster", t, id, {"AddNode", "panic"})
                       /\ UNCHANGED netVars
        /\ UNCHANGED <<done, closed, loopVars, engineVars>>

\* The entries the range of p's JoinCluster has still to produce: those that were in
\* the registry when it began and are in it still.  (An entry inserted while the
\* range runs may be produced or passed over.)
ToVisit(p) == (join[p].start \cap DOMAIN Cluster[join[p].target]) \ join[p].visited

\* The loop is over: n.RegisterNode(info), and the answer with the peers collected.
JoinClusterReturn(p) ==
    LET t == join[p].target
    IN  /\ join[p].state = "iterating" /\ Running(t)
        /\ ToVisit(p) = {}
        /\ \E o \in Outcomes(t, p) :
             LET r == RegisterNode(Net, t, p, o)
             IN  /\ SetNet(r.net)
                 /\ ev' = RegEvent("JoinCluster", r)
                 /\ join' = [join EXCEPT ![p] =
                               [@ EXCEPT !.state = "returned",
                                         !.Success = (r.reg.ret = ""),
                                         !.Info = IF r.reg.ret = "" THEN join[p].nodes ELSE {},
                                         !.boot = IF r.reg.ret = "" THEN join[p].nodes ELSE {}]]
        /\ UNCHANGED <<done, closed, halted, loopVars, engineVars>>

\* The new member registers a peer of the list JoinCluster returned to it.
Bootstrap(p, q) ==
    /\ Running(p) /\ join[p].state = "returned" /\ join[p].Success
    /\ q \in join[p].boot
    /\ \E o \in Outcomes(p, q) :
         LET r == RegisterNode(Net, p, q, o)
         IN  /\ SetNet(r.net)
             /\ ev' = RegEvent("Bootstrap", r)
             /\ join' = [join EXCEPT ![p] =
                           IF r.reg.ret # "" THEN [@ EXCEPT !.state = "failed"]
                           ELSE [@ EXCEPT !.boot = @ \ {q},
                                          !.state = IF join[p].boot = {q} THEN "joined"
                                                    ELSE "returned"]]
    /\ UNCHANGED <<done, closed, halted, loopVars, engineVars>>

\* ------------------------------------------------------------ the node with its event loop

\* A registry the local node can hold: itself, and the peers of R, each registered
\* over its first connection and watched by its monitor.
Registered(R) ==
    [x \in {Self} \cup R |-> [Addr |-> x, Client |-> IF x = Self THEN 0 ELSE 1]]

InitLoop ==
    /\ pc = "select" /\ rd = EmptyReady /\ acted = {} /\ failed = {} /\ inflight = 0
    /\ Store = [ents |-> <<>>, hardState |-> EmptyHardState, snapshot |-> EmptySnapshot]
    /\ PStore = <<>> /\ appliedLog = <<>>
    /\ halted = [n \in NodeIDs |-> ""]
    /\ join = [p \in NodeIDs |-> NoJoin]
    /\ done = FALSE
    /\ ev = Event("NewNode", Self, 0, {})

\* The local node with the peers of R registered and the members of V voting.
InitNode(R, V) ==
    /\ InitLoop
    /\ voters = V /\ pendingConf = NoConf
    /\ Cluster = [n \in NodeIDs |-> IF n = Self THEN Registered(R) ELSE NewNodeCluster(n)]
    /\ opened = [n \in NodeIDs |-> [p \in NodeIDs |-> IF n = Self /\ p \in R THEN 1 ELSE 0]]
    /\ monitors = {<<Self, p, 1>> : p \in R}
    /\ closed = {}

\* The event loop: a member of a three-voter cluster that has registered node 2 and
\* not node 3, taking whole batches.
Init == InitNode({2}, NodeIDs)

Next ==
    \/ Tick
    \/ Ready(LoopBatches)
    \/ SaveToStorage
    \/ SendMessage
    \/ ProcessSnapshot
    \/ ProcessEntry
    \/ Advance

Spec == Init /\ [][Next]_vars

\* The router: the node alone at first, any of its peers registered, with the
\* membership proposals and the monitors running beside the event loop.
InitRouter == \E R \in SUBSET PeerIDs : InitNode(R, {Self})

NextRouter ==
    \/ Tick
    \/ Ready(RouterBatches)
    \/ SaveToStorage
    \/ SendMessage
    \/ ProcessEntry
    \/ Advance
    \/ \E id \in PeerIDs : JoinRaft(id)
    \/ \E id \in PeerIDs : LeaveRaft(id)
    \/ \E m \in monitors : m[1] = Self /\ Monitor(m[1], m[2], m[3])

SpecRouter == InitRouter /\ [][NextRouter]_vars

\* The router with the event loop running on: Start is sequential code in its own
\* goroutine, so a statement of the Ready case that can act does act.
SpecRouterLive ==
    /\ SpecRouter
    /\ WF_vars(SaveToStorage) /\ WF_vars(SendMessage)
    /\ WF_vars(ProcessEntry) /\ WF_vars(Advance)

\* The application state store: the node alone, applying committed normal entries.
InitApply == InitNode({}, {Self})

NextApply ==
    \/ Tick
    \/ Ready(ApplyBatches)
    \/ SaveToStorage
    \/ ProcessEntry
    \/ Advance

SpecApply == InitApply /\ [][NextApply]_vars

\* The event loop and its termination: batches without a snapshot, and the signal
\* raised at any moment.
StopBatches ==
    ReadyBatches(HardStates, NewEntries, {EmptySnapshot}, voters,
                 {NormalEntry(Bytes(Marshal("k1", "v1")))})

NextStop ==
    \/ Tick
    \/ Ready(StopBatches)
    \/ SaveToStorage
    \/ SendMessage
    \/ ProcessEntry
    \/ Advance
    \/ Stop
    \/ Exit

SpecStop == Init /\ [][NextStop]_vars

\* The membership protocol: three nodes, each alone in its registry; nodes 2 and 3
\* join through any member.
InitJoin ==
    /\ InitLoop
    /\ voters = {Self} /\ pendingConf = NoConf
    /\ Cluster = [n \in NodeIDs |-> NewNodeCluster(n)]
    /\ opened = [n \in NodeIDs |-> [p \in NodeIDs |-> 0]]
    /\ monitors = {} /\ closed = {}

NextJoin ==
    \/ \E p \in PeerIDs, t \in NodeIDs : JoinClusterCall(p, t)
    \/ \E p \in PeerIDs, id \in NodeIDs : JoinClusterVisit(p, id)
    \/ \E p \in PeerIDs : JoinClusterReturn(p)
    \/ \E p \in PeerIDs, q \in NodeIDs : Bootstrap(p, q)

SpecJoin == InitJoin /\ [][NextJoin]_vars

\* The node and its peer node 2, registered and voting: batches of messages to the
\* voters, the inbound Send and AddNode calls, and the monitors.
InitPeers == InitNode({2}, {Self, 2})

PeerBatches == ReadyBatches({EmptyHardState}, {<<>>}, {EmptySnapshot}, voters, {})

NextPeers ==
    \/ Tick
    \/ Ready(PeerBatches)
    \/ SaveToStorage
    \/ SendMessage
    \/ Advance
    \/ \E from \in voters \ {Self} : Send(from)
    \/ \E p \in voters \ {Self} : AddNode(Self, p)
    \/ \E m \in monitors : Monitor(m[1], m[2], m[3])

SpecPeers == InitPeers /\ [][NextPeers]_vars

\* The membership protocol with the monitors that its registrations start: node 2
\* has joined through node 1, each holds the other over its first connection, and
\* node 3 is about to join.
InitMembers ==
    /\ InitLoop
    /\ voters = {Self} /\ pendingConf = NoConf
    /\ Cluster = [n \in NodeIDs |->
                    CASE n = 1 -> AddNodes(NewNodeCluster(1), 2, [Addr |-> 2, Client |-> 1])
                      [] n = 2 -> AddNodes(NewNodeCluster(2), 1, [Addr |-> 1, Client |-> 1])
                      [] OTHER -> NewNodeCluster(n)]
    /\ opened = [n \in NodeIDs |-> [p \in NodeIDs |->
                    IF <<n, p>> \in {<<1, 2>>, <<2, 1>>} THEN 1 ELSE 0]]
    /\ monitors = {<<1, 2, 1>>, <<2, 1, 1>>} /\ closed = {}

NextMembers ==
    \/ \E t \in NodeIDs : JoinClusterCall(3, t)
    \/ \E id \in NodeIDs : JoinClusterVisit(3, id)
    \/ JoinClusterReturn(3)
    \/ \E q \in NodeIDs : Bootstrap(3, q)
    \/ \E m \in monitors : Monitor(m[1], m[2], m[3])

SpecMembers == InitMembers /\ [][NextMembers]_vars

\* ------------------------------------------------------------ the event loop's batches

\* saveToStorage has returned for the batch in hand, and the store holds what its
\* calls were given (a call that returned an error wrote nothing).
Saved ==
    /\ "saveToStorage" \in acted
    /\ (rd.Entries # <<>> /\ "Append" \notin failed) => Store.ents = rd.Entries
    /\ (~IsEmptyHardState(rd.HardState) /\ "SetHardState" \notin failed)
            => Store.hardState = rd.HardState
    /\ (~IsEmptySnap(rd.Snapshot) /\ "ApplySnapshot" \notin failed)
            => Store.snapshot = rd.Snapshot

\* C1: a batch goes through the loop in order and alone.  No message of the batch is
\* dispatched before saveToStorage has returned for its entries, hard state and
\* snapshot; no committed entry is applied before every message is dispatched;
\* Advance is reached only when every committed entry is applied; and no batch is
\* taken while another is not advanced.
C1_BatchOrder ==
    /\ "send" \in acted => Saved
    /\ "process" \in acted => (Saved /\ rd.Messages = <<>>)
    /\ pc = "Advance" => (Saved /\ rd.Messages = <<>> /\ rd.CommittedEntries = <<>>)
    /\ inflight <= 1
    /\ pc = "select" => inflight = 0

\* A batch with entries E1, E2, a message and a committed entry, about to be advanced.
C1_Witness ==
    /\ pc = "Advance"
    /\ rd.Entries = <<1, 2>> /\ Store.ents = <<1, 2>>
    /\ acted = {"saveToStorage", "send", "process"}

\* C9: a batch with a snapshot has the snapshot installed in the application state
\* store (the store is the snapshot's data once processSnapshot has acted and before
\* a committed entry is applied), and the node does not abort on it.
C9_SnapshotInstalled ==
    ~IsEmptySnap(rd.Snapshot) =>
        /\ Running(Self)
        /\ ("processSnapshot" \in acted /\ "process" \notin acted)
                => PStore = rd.Snapshot.Data

\* C10: when a store call of the batch failed, no message of the batch is dispatched,
\* no committed entry applied, and Advance is not reached.
C10_PersistFailureAborts ==
    failed # {} =>
        /\ "send" \notin acted
        /\ "process" \notin acted
        /\ pc # "Advance"

\* C12: once the termination signal is raised the event loop handles no further
\* timer tick and takes no further batch from the engine.
C12_NoWorkAfterStop ==
    [][done => /\ ~(ev' # ev /\ ev'.op = "Tick")
               /\ inflight' <= inflight]_vars

\* ------------------------------------------------------------ the application state store

KeyOf(data) == Unmarshal(data).Key
ValueOf(data) == Unmarshal(data).Value
\* The last entry of log that carries key k.
LastWrite(log, k) ==
    CHOOSE i \in 1..Len(log) :
        /\ KeyOf(log[i]) = k
        /\ \A j \in (i + 1)..Len(log) : KeyOf(log[j]) # k

\* C2: the store is a function of the committed normal entries applied to it: its
\* keys are the keys they carry, and each key has the value of the last entry that
\* carries it.
C2_LastWriteWins ==
    /\ DOMAIN PStore = {KeyOf(appliedLog[i]) : i \in 1..Len(appliedLog)}
    /\ \A k \in DOMAIN PStore : PStore[k] = ValueOf(appliedLog[LastWrite(appliedLog, k)])

\* (k, v1) then (k, v2) were applied, and another key after them.
C2_Witness ==
    /\ Len(appliedLog) = 3
    /\ KeyOf(appliedLog[1]) = KeyOf(appliedLog[2])
    /\ ValueOf(appliedLog[1]) # ValueOf(appliedLog[2])
    /\ KeyOf(appliedLog[3]) # KeyOf(appliedLog[1])
    /\ PStore[KeyOf(appliedLog[1])] = ValueOf(appliedLog[2])

\* The entry the loop is at is a normal entry whose payload is no Pair.
AtUndecodable ==
    /\ pc = "process" /\ rd.CommittedEntries # <<>>
    /\ IsPair(Head(rd.CommittedEntries))
    /\ Unmarshal(Head(rd.CommittedEntries).Data).err

\* C11: at a committed normal entry that does not decode the node terminates: the
\* step leaves the store and the entries left as they are and fires neither the
\* event nor the handler; and once the node has terminated nothing is applied and
\* the batch is never advanced.
C11_DecodeFailureIsFatal ==
    /\ [][(AtUndecodable /\ Running(Self) /\ ev' # ev) =>
            /\ ~Running(Self)'
            /\ PStore' = PStore /\ appliedLog' = appliedLog
            /\ rd' = rd /\ pc' = pc /\ inflight' = inflight
            /\ ev'.calls \cap {"event", "handler", "Advance"} = {}]_vars
    /\ [][~Running(Self) =>
            /\ PStore' = PStore /\ appliedLog' = appliedLog
            /\ rd' = rd /\ pc' = pc /\ inflight' = inflight]_vars

\* The node has terminated at an entry that does not decode, the first of its batch,
\* with an entry after it.
C11_Witness ==
    /\ ~Running(Self) /\ AtUndecodable
    /\ ev.calls = {"log.Fatal"}
    /\ Len(rd.CommittedEntries) = 2 /\ inflight = 1

\* ------------------------------------------------------------ the router

\* C3: a message to the local node is stepped into the engine, and neither sent
\* through a peer nor looked up in the registry.
C3_LoopBack ==
    (ev.op = "send" /\ ev.peer = Self) => ev.calls = {"Step"}

\* A message to the local node was routed while a peer is registered.
C3_Witness ==
    /\ ev.op = "send" /\ ev.peer = Self /\ "Step" \in ev.calls
    /\ DOMAIN Cluster[Self] # {Self}

\* The router evicted the peer whose monitor m is: m runs on over a closed handle.
RouterEvicted(m) == m \in monitors /\ m \in closed

\* C4: when the router's Send to a registered peer fails, the peer's handle is
\* closed, the peer is reported unreachable and is off the registry, and from then
\* on the peer's monitor makes no probe.
C4_EvictionStopsMonitor ==
    /\ [](("RemoveNode" \in ev.calls /\ ev.op = "send") =>
            /\ {"Close", "ReportUnreachable"} \subseteq ev.calls
            /\ ev.peer \notin DOMAIN Cluster[Self])
    /\ [][\A m \in monitors :
            RouterEvicted(m) => ~(ev'.op = "monitor" /\ ev'.peer = m[2] /\ m \notin monitors')]_vars

\* The calls that enter the consensus engine.
EngineCalls == {"Tick", "Step", "Advance", "ApplyConfChange", "ReportUnreachable"}

\* C14: the handler of an inbound Send and the monitors make no call into the engine
\* while the event loop is in the middle of a batch.
C14_EngineCallsSerialized ==
    [][(ev' # ev /\ ev'.op \in {"Send", "monitor"} /\ ev'.calls \cap EngineCalls # {})
            => pc \in {"select", "exited"}]_vars

\* C18: an entry leaves the registry only through the router, which works with the
\* handle the entry holds, or through the monitor of that very handle; and no
\* registered peer has more than one monitor running.
C18_OnlyCurrentHandleEvicts ==
    /\ [][\A p \in PeerIDs :
            (p \in DOMAIN Cluster[Self] /\ p \notin DOMAIN Cluster'[Self]) =>
                \/ ev'.op = "send"
                \/ <<Self, p, Cluster[Self][p].Client>> \in monitors \ monitors']_vars
    /\ [](\A p \in DOMAIN Cluster[Self] :
            Cardinality({m \in monitors : m[1] = Self /\ m[2] = p}) <= 1)

\* C15: a monitor ends by evicting its peer only when the router has not evicted
\* that peer already: the handle it closes was open.
C15_EvictedOnce ==
    [][\A m \in monitors : m \notin monitors' => m \notin closed]_vars

\* C16: when the Send of a message to P fails, the step takes P, and P alone, off the
\* registry, leaves the node running and goes on with the rest of the batch; and
\* every batch taken, whatever failed in it, is advanced.
C16_FailureContained ==
    /\ [][(pc = "send" /\ rd' # rd /\ "Close" \in ev'.calls) =>
            /\ \A q \in (DOMAIN Cluster[Self]) \ {Head(rd.Messages).To} :
                    q \in DOMAIN Cluster'[Self] /\ Cluster'[Self][q] = Cluster[Self][q]
            /\ Running(Self)'
            /\ rd'.Messages = Tail(rd.Messages)
            /\ rd'.CommittedEntries = rd.CommittedEntries
            /\ pc' = Continue("send", rd')]_vars
    /\ (pc # "select") ~> (pc = "select" /\ inflight = 0)

\* The Send to node 2 failed with node 3 registered and a message left in the batch.
C16_Witness ==
    /\ ev.op = "send" /\ ev.peer = 2 /\ "RemoveNode" \in ev.calls
    /\ DOMAIN Cluster[Self] = {Self, 3}
    /\ pc = "send" /\ Len(rd.Messages) = 1
    /\ Running(Self)

\* C6: JoinRaft and LeaveRaft leave the registry as it is; and a message to a peer
\* that has no registry entry is dropped with a lookup and no network call, the
\* loop going on with the rest of the batch.
C6_TwoMemberships ==
    [][/\ ev'.op \in {"JoinRaft", "LeaveRaft"} => Cluster' = Cluster
       /\ (/\ pc = "send" /\ rd' # rd
           /\ Head(rd.Messages).To \notin DOMAIN Cluster[Self])
            => /\ ev'.calls = {"Lookup"}
               /\ <<Cluster', opened', closed', monitors'>> = <<Cluster, opened, closed, monitors>>
               /\ Running(Self)'
               /\ rd'.Messages = Tail(rd.Messages)
               /\ pc' = Continue("send", rd')]_vars

\* Node 3 votes after a JoinRaft, was never registered, and a message to it was dropped.
C6_Witness ==
    /\ ev.op = "send" /\ ev.peer = 3 /\ ev.calls = {"Lookup"}
    /\ 3 \in voters /\ opened[Self][3] = 0
    /\ 3 \notin DOMAIN Cluster[Self]

\* ------------------------------------------------------------ the membership protocol

\* C5: a RegisterNode call whose every attempt failed made exactly MaxRetryTime
\* attempts and returned ErrConnectionRefused, inserted nothing in the registry and
\* started no monitor.
C5_BoundedRetry ==
    [][(ev'.reg # NoReg /\ ev'.reg.dialled = 0) =>
          /\ ev'.reg.attempts = MaxRetryTime
          /\ ev'.reg.ret = "ErrConnectionRefused"
          /\ Cluster' = Cluster
          /\ monitors' = monitors]_vars

\* Node 1 served JoinCluster for node 2 and could not connect to it.
C5_Witness ==
    /\ ev.reg # NoReg /\ ev.reg.dialled = 0 /\ ev.reg.node = 1 /\ ev.reg.peer = 2
    /\ ev.reg.attempts = MaxRetryTime
    /\ join[2].state = "returned" /\ ~join[2].Success
    /\ 2 \notin DOMAIN Cluster[1]

\* The range of p's JoinCluster over the registry of its target is under way: it has
\* produced an entry and has entries still to produce.
Iterating(p) ==
    /\ join[p].state = "iterating" /\ Running(join[p].target)
    /\ join[p].visited # {} /\ ToVisit(p) # {}

\* C13: no entry is inserted into or removed from a registry while a JoinCluster
\* call is ranging over that registry.
C13_RegistryExclusive ==
    [][\A p \in PeerIDs :
          Iterating(p) => Cluster'[join[p].target] = Cluster[join[p].target]]_vars

\* C17: a RegisterNode call in which some attempt connected returns success, with the
\* peer in the registry holding a handle that call opened and that handle's monitor
\* running.
C17_SucceedsOnceConnected ==
    [][(ev'.reg # NoReg /\ ev'.reg.dialled > 0) =>
          /\ ev'.reg.ret = ""
          /\ ev'.reg.peer \in DOMAIN Cluster'[ev'.reg.node]
          /\ Cluster'[ev'.reg.node][ev'.reg.peer].Client = ev'.reg.client
          /\ <<ev'.reg.node, ev'.reg.peer, ev'.reg.client>> \in monitors']_vars

\* C7: when an AddNode call of JoinCluster fails, by an error or by an answer without
\* Success, JoinCluster stops there and has returned Success false to its caller.
C7_JoinClusterReportsFailure ==
    \A p \in PeerIDs :
        join[p].forward # "" =>
            /\ join[p].state = "returned"
            /\ ~join[p].Success
            /\ join[p].Info = {}

\* Node 2, then node 3, has joined through node 1 and registered the peers returned.
BothJoined ==
    /\ join[2].state = "joined" /\ join[2].target = 1
    /\ join[3].state = "joined" /\ join[3].target = 1
    /\ 2 \in join[3].after

\* C8: when node 2 has joined through node 1 and node 3 has then done the same, each
\* registering the peers JoinCluster returned, every node has an entry for the two
\* others.
C8_AllRegistered ==
    BothJoined => \A n \in NodeIDs : DOMAIN Cluster[n] = NodeIDs

C8_Witness ==
    /\ BothJoined
    /\ join[2].Info = {1} /\ join[3].Info = {1, 2}
    /\ \A n \in NodeIDs : DOMAIN Cluster[n] = NodeIDs

\* Nodes 2 and 3 have both joined through node 1 and registered the peers returned.
BothJoinedThrough1 ==
    /\ join[2].state = "joined" /\ join[2].target = 1
    /\ join[3].state = "joined" /\ join[3].target = 1

\* C19: when nodes 2 and 3 have both joined through node 1, in whatever order and
\* overlap, node 1 has an entry for both and each of them has an entry for the other.
C19_OverlappingJoinsConverge ==
    BothJoinedThrough1 =>
        /\ {2, 3} \subseteq DOMAIN Cluster[1]
        /\ 3 \in DOMAIN Cluster[2]
        /\ 2 \in DOMAIN Cluster[3]

\* C20: when JoinCluster has answered a new member with a failure, no node holds a
\* registry entry or runs a monitor for that member.
C20_NoPartialRegistration ==
    \A p \in PeerIDs :
        (join[p].state = "returned" /\ ~join[p].Success) =>
            \A n \in NodeIDs \ {p} :
                /\ p \notin DOMAIN Cluster[n]
                /\ \A m \in monitors : ~(m[1] = n /\ m[2] = p)

====
